---------------------------- MODULE Spec2Model ----------------------------
(***************************************************************************)
(* A model of the TuringStack Python demonstration scripts:                *)
(*   fibonacci.py       - the Fibonacci implementations and the lru_cache  *)
(*   stack_hello.py     - the list stack and the Stack class               *)
(*   stack_vs_queue.py  - the deque queue, UndoRedo, bfs and dfs           *)
(*   stack_overflow.py  - the recursion limit and deep recursion           *)
(* Each script is an independent program, so each has a specification of   *)
(* its own (SpecFib, SpecStack, SpecQueue, SpecGraph, SpecRecursion,       *)
(* SpecUndo, SpecTrampoline) over its own variables; the others' variables *)
(* stay at their idle values.                                              *)
(***************************************************************************)
EXTENDS Integers, Sequences, FiniteSets, TLC

VARIABLES
    \* fibonacci.py
    n,              \* the argument the implementations are applied to
    results,        \* implementation name -> value it returned (partial)
    fib_gen,        \* the generator object of fib_generator(), <<>> before creation
    gen_i,          \* enumerate()'s index i over fib_gen
    cache,          \* lru_cache of fib_memoized: key (the args tuple) -> value
    hits,           \* cache_info().hits
    misses,         \* cache_info().misses (= executions of the body)
    calls,          \* fib_counted.calls
    toplevel,       \* top-level calls of fib_memoized since cache_clear()
    \* stack_hello.py
    items,          \* Stack.items / the list `stack`
    stack_log,      \* history: the push and pop calls made, with what pop returned
    \* stack_vs_queue.py, demo_basic_operations
    queue,          \* the deque
    enqueued,       \* history: every element appended, in order
    dequeued,       \* history: every element popleft() returned, in order
    \* stack_vs_queue.py, bfs and dfs
    graph,          \* adjacency lists: node -> sequence of nodes
    start,
    traversal,      \* "bfs", "dfs" or "done": which function is running
    bfs_visited, bfs_queue, bfs_order,
    dfs_visited, dfs_stack, dfs_order,
    \* stack_overflow.py
    pc,             \* position in the script
    recursion_limit,\* sys.getrecursionlimit()
    limit,          \* safe_deep_recursion's parameter
    frames,         \* Python frames on the call stack
    depth,          \* the argument of the innermost recursive call
    call_count,     \* call_count[0]
    result,         \* what recursive_count(0) returned, <<>> before it returns
    exc,            \* the exception propagating, "None" when there is none
    exit_code,      \* the process's exit status, <<>> while it runs
    stdout,         \* what the script reported, as tags
    \* stack_vs_queue.py, UndoRedo
    undo_stack, redo_stack,
    hist,           \* history: the last three calls, each with the stacks before it
    \* stack_overflow.py, factorial_tail_recursive and the trampoline
    fact_n,         \* the number whose factorial is computed
    t_pc,           \* position in the two demonstrations
    call_stack,     \* the live activations, outermost first: [fn, n, acc]
    bouncer,        \* trampoline's `bouncer`: a Bounce or an int
    tail_result,    \* what factorial_tail_recursive(n) returned, <<>> before
    tramp_result    \* what trampoline(...) returned, <<>> before

fibVars == <<n, results, fib_gen, gen_i, cache, hits, misses, calls, toplevel>>
stackVars == <<items, stack_log>>
queueVars == <<queue, enqueued, dequeued>>
graphVars == <<graph, start, traversal, bfs_visited, bfs_queue, bfs_order,
               dfs_visited, dfs_stack, dfs_order>>
recVars == <<pc, recursion_limit, limit, frames, depth, call_count, result,
             exc, exit_code, stdout>>
undoVars == <<undo_stack, redo_stack, hist>>
trampVars == <<fact_n, t_pc, call_stack, bouncer, tail_result, tramp_result>>
vars == <<fibVars, stackVars, queueVars, graphVars, recVars, undoVars, trampVars>>

None == "None"

\* Python's reversed(): the sequence back to front.
Reverse(s) == [i \in 1..Len(s) |-> s[Len(s) + 1 - i]]

Max(S) == CHOOSE x \in S : \A y \in S : y <= x

(***************************************************************************)
(* Idle values of each script's variables.                                 *)
(***************************************************************************)
FibIdle ==
    /\ n = 0 /\ results = <<>> /\ fib_gen = <<>> /\ gen_i = 0
    /\ cache = <<>> /\ hits = 0 /\ misses = 0 /\ calls = 0 /\ toplevel = 0
StackIdle == items = <<>> /\ stack_log = <<>>
QueueIdle == queue = <<>> /\ enqueued = <<>> /\ dequeued = <<>>
GraphIdle ==
    /\ graph = <<>> /\ start = None /\ traversal = "done"
    /\ bfs_visited = {} /\ bfs_queue = <<>> /\ bfs_order = <<>>
    /\ dfs_visited = {} /\ dfs_stack = <<>> /\ dfs_order = <<>>
RecIdle ==
    /\ pc = "idle" /\ recursion_limit = 0 /\ limit = 0 /\ frames = 0
    /\ depth = 0 /\ call_count = 0 /\ result = <<>> /\ exc = None
    /\ exit_code = <<>> /\ stdout = <<>>
UndoIdle == undo_stack = <<>> /\ redo_stack = <<>> /\ hist = <<>>
TrampIdle ==
    /\ fact_n = 0 /\ t_pc = "idle" /\ call_stack = <<>>
    /\ bouncer = [kind |-> "unset", args |-> <<>>]
    /\ tail_result = <<>> /\ tramp_result = <<>>

(***************************************************************************)
(* fibonacci.py                                                            *)
(***************************************************************************)
MaxN == 8
MaxTopLevel == 2

\* The recurrence the implementations are compared with.
RECURSIVE F(_)
F(k) == IF k = 0 THEN 0 ELSE IF k = 1 THEN 1 ELSE F(k - 1) + F(k - 2)

RECURSIVE fib_recursive_naive(_)
fib_recursive_naive(m) ==
    IF m <= 1 THEN m
    ELSE fib_recursive_naive(m - 1) + fib_recursive_naive(m - 2)

\* the for loop of fib_iterative: i runs over range(2, m + 1)
RECURSIVE fib_iterative_loop(_, _, _, _)
fib_iterative_loop(i, m, prev2, prev1) ==
    IF i > m THEN prev1
    ELSE fib_iterative_loop(i + 1, m, prev1, prev1 + prev2)

\* a loop that stops one iteration early: range(2, m)
fib_iterative_short(m) ==
    IF m <= 1 THEN m ELSE fib_iterative_loop(2, m - 1, 0, 1)

fib_iterative(m) ==
    IF m <= 1 THEN m ELSE fib_iterative_loop(2, m, 0, 1)

\* fib_counted through count_calls_decorator's wrapper: the value, and the
\* number of times the wrapper ran.
RECURSIVE fib_counted(_)
fib_counted(m) ==
    IF m <= 1 THEN [val |-> m, calls |-> 1]
    ELSE LET l == fib_counted(m - 1)
             r == fib_counted(m - 2)
         IN  [val |-> l.val + r.val, calls |-> 1 + l.calls + r.calls]

\* fib_memoized behind functools.lru_cache(maxsize=None).  The cache key is the
\* tuple of the call's arguments: <<m>> for the top-level call fib_memoized(m),
\* <<m, depth>> for the calls the body makes.  st is [cache, hits, misses].
RECURSIVE fib_memoized(_, _)
fib_memoized(key, st) ==
    IF key \in DOMAIN st.cache
    THEN [val |-> st.cache[key], st |-> [st EXCEPT !.hits = @ + 1]]
    ELSE LET m == key[1]
             d == IF Len(key) = 2 THEN key[2] ELSE 0
             body ==
                 IF m <= 1 THEN [val |-> m, st |-> st]
                 ELSE LET r1 == fib_memoized(<<m - 1, d + 1>>, st)
                          r2 == fib_memoized(<<m - 2, d + 1>>, r1.st)
                      IN  [val |-> r1.val + r2.val, st |-> r2.st]
         IN  [val |-> body.val,
              st  |-> [cache  |-> (key :> body.val) @@ body.st.cache,
                       hits   |-> body.st.hits,
                       misses |-> body.st.misses + 1]]

\* One next() on the generator: the first runs a, b = 0, 1 up to the yield,
\* every later one resumes after the yield with a, b = b, a + b.  The value
\* yielded is the new a.
gen_next(g) ==
    IF ~g.started THEN [started |-> TRUE, a |-> 0, b |-> 1]
    ELSE [started |-> TRUE, a |-> g.b, b |-> g.a + g.b]

NotFib == UNCHANGED <<stackVars, queueVars, graphVars, recVars, undoVars,
    trampVars>>

CallNaive ==
    /\ "naive" \notin DOMAIN results
    /\ results' = ("naive" :> fib_recursive_naive(n)) @@ results
    /\ UNCHANGED <<n, fib_gen, gen_i, cache, hits, misses, calls, toplevel>>
    /\ NotFib

CallIterative ==
    /\ "iterative" \notin DOMAIN results
    /\ results' = ("iterative" :> fib_iterative(n)) @@ results
    /\ UNCHANGED <<n, fib_gen, gen_i, cache, hits, misses, calls, toplevel>>
    /\ NotFib

\* fib_counted.calls = 0; result_naive = fib_counted(n)
CallCounted ==
    /\ "counted" \notin DOMAIN results
    /\ LET r == fib_counted(n)
       IN  /\ results' = ("counted" :> r.val) @@ results
           /\ calls' = r.calls
    /\ UNCHANGED <<n, fib_gen, gen_i, cache, hits, misses, toplevel>>
    /\ NotFib

\* fib_memoized.cache_clear()
CacheClear ==
    /\ toplevel > 0
    /\ cache' = <<>> /\ hits' = 0 /\ misses' = 0 /\ toplevel' = 0
    /\ UNCHANGED <<n, results, fib_gen, gen_i, calls>>
    /\ NotFib

\* result = fib_memoized(n), a top-level call
CallMemoized ==
    /\ toplevel < MaxTopLevel
    /\ LET r == fib_memoized(<<n>>, [cache |-> cache, hits |-> hits, misses |-> misses])
       IN  /\ results' = ("memoized" :> r.val) @@ results
           /\ cache' = r.st.cache
           /\ hits' = r.st.hits
           /\ misses' = r.st.misses
    /\ toplevel' = toplevel + 1
    /\ UNCHANGED <<n, fib_gen, gen_i, calls>>
    /\ NotFib

\* fib_gen = fib_generator()
GenCreate ==
    /\ fib_gen = <<>>
    /\ fib_gen' = [started |-> FALSE, a |-> 0, b |-> 0]
    /\ gen_i' = 0
    /\ UNCHANGED <<n, results, cache, hits, misses, calls, toplevel>>
    /\ NotFib

\* one turn of `for i, val in enumerate(fib_gen)`: if i == n, keep val and break
GenStep ==
    /\ fib_gen # <<>>
    /\ "generator" \notin DOMAIN results
    /\ LET g == gen_next(fib_gen)
       IN  /\ fib_gen' = g
           /\ IF gen_i = n
              THEN results' = ("generator" :> g.a) @@ results /\ gen_i' = gen_i
              ELSE results' = results /\ gen_i' = gen_i + 1
    /\ UNCHANGED <<n, cache, hits, misses, calls, toplevel>>
    /\ NotFib

InitFib ==
    /\ n \in 0..MaxN
    /\ results = <<>> /\ fib_gen = <<>> /\ gen_i = 0
    /\ cache = <<>> /\ hits = 0 /\ misses = 0 /\ calls = 0 /\ toplevel = 0
    /\ StackIdle /\ QueueIdle /\ GraphIdle /\ RecIdle /\ UndoIdle /\ TrampIdle

NextFib ==
    \/ CallNaive
    \/ CallIterative
    \/ CallCounted
    \/ CacheClear
    \/ CallMemoized
    \/ GenCreate
    \/ GenStep

SpecFib == InitFib /\ [][NextFib]_vars

Implementations == {"naive", "iterative", "memoized", "counted", "generator"}

\* C1: every Fibonacci implementation applied to n returns F(n), the value of
\* the recurrence F(0) = 0, F(1) = 1, F(k) = F(k-1) + F(k-2): the naive
\* recursion, the iteration, the memoized recursion, the counted recursion and
\* the generator's value at 0-based position n.
FibAllAgree ==
    \A impl \in DOMAIN results : results[impl] = F(n)

FibAllAgreeWitness ==
    /\ n >= 5
    /\ DOMAIN results = Implementations
    /\ results["generator"] = F(n)
    /\ gen_i = n

\* C6 (as claimed): after cache_clear(), one top-level call fib_memoized(n)
\* runs the body at most once for each value in 0..n: at most n + 1 misses,
\* and no value of the first argument is cached under two keys.
MemoLinearWork ==
    toplevel = 1 =>
        /\ misses <= n + 1
        /\ \A k1, k2 \in DOMAIN cache : k1[1] = k2[1] => k1 = k2

(***************************************************************************)
(* stack_hello.py: the list used as a stack, and the Stack class.          *)
(***************************************************************************)
MaxOps == 6

\* the elements pushed (input_data's 'A', 'B')
Items == {"A", "B"}

\* Stack.is_empty: len(self.items) == 0
is_empty(s) == Len(s) = 0

\* Stack.push / list.append
stack_push(s, x) == Append(s, x)

\* a pop that takes the oldest element instead: items.pop(0)
stack_pop_front(s) ==
    IF ~is_empty(s) THEN [ret |-> s[1], items |-> SubSeq(s, 2, Len(s))]
    ELSE [ret |-> None, items |-> s]

\* Stack.pop: items.pop() when not empty, else None
stack_pop(s) ==
    IF ~is_empty(s) THEN [ret |-> s[Len(s)], items |-> SubSeq(s, 1, Len(s) - 1)]
    ELSE [ret |-> None, items |-> s]

\* Stack.peek
stack_peek(s) == IF ~is_empty(s) THEN s[Len(s)] ELSE None

NotStack == UNCHANGED <<fibVars, queueVars, graphVars, recVars, undoVars,
    trampVars>>

Push(x) ==
    /\ Len(stack_log) < MaxOps
    /\ items' = stack_push(items, x)
    /\ stack_log' = Append(stack_log, [op |-> "push", item |-> x])
    /\ NotStack

Pop ==
    /\ Len(stack_log) < MaxOps
    /\ LET r == stack_pop(items)
       IN  /\ items' = r.items
           /\ stack_log' = Append(stack_log, [op |-> "pop", item |-> r.ret])
    /\ NotStack

InitStack ==
    /\ items = <<>> /\ stack_log = <<>>
    /\ FibIdle /\ QueueIdle /\ GraphIdle /\ RecIdle /\ UndoIdle /\ TrampIdle

NextStack ==
    \/ \E x \in Items : Push(x)
    \/ Pop

SpecStack == InitStack /\ [][NextStack]_vars

\* The pushes (as positions of the log) still on the stack after the first k
\* calls, when each pop takes the most recently pushed one of them.
RECURSIVE Live(_, _)
Live(log, k) ==
    IF k = 0 THEN {}
    ELSE LET prev == Live(log, k - 1)
         IN  IF log[k].op = "push" THEN prev \cup {k}
             ELSE IF prev = {} THEN {} ELSE prev \ {Max(prev)}

\* The positions of S in increasing order.
RECURSIVE InOrder(_)
InOrder(S) ==
    IF S = {} THEN <<>>
    ELSE LET m == Max(S) IN Append(InOrder(S \ {m}), m)

Pushed(log) == SelectSeq(log, LAMBDA e : e.op = "push")
Popped(log) == SelectSeq(log, LAMBDA e : e.op = "pop")
ItemsOf(es) == [i \in 1..Len(es) |-> es[i].item]

\* k pushes followed by k pops
PushesThenPops(log) ==
    /\ Len(log) % 2 = 0
    /\ \A i \in 1..Len(log) :
          log[i].op = (IF 2 * i <= Len(log) THEN "push" ELSE "pop")

\* C2: the stack is LIFO.  Every pop on a non-empty stack returned the most
\* recently pushed element not yet popped, and the stack holds exactly the
\* pushed elements not yet popped, oldest first; after k pushes followed by k
\* pops the stack is empty, the pops came out in reverse order of the pushes,
\* and reversing them gives the pushes back.
StackIsLIFO ==
    /\ \A k \in 1..Len(stack_log) :
          (stack_log[k].op = "pop" /\ Live(stack_log, k - 1) # {}) =>
              stack_log[k].item = stack_log[Max(Live(stack_log, k - 1))].item
    /\ items = [i \in 1..Cardinality(Live(stack_log, Len(stack_log))) |->
                   stack_log[InOrder(Live(stack_log, Len(stack_log)))[i]].item]
    /\ PushesThenPops(stack_log) =>
          /\ is_empty(items)
          /\ ItemsOf(Popped(stack_log)) = Reverse(ItemsOf(Pushed(stack_log)))
          /\ Reverse(ItemsOf(Popped(stack_log))) = ItemsOf(Pushed(stack_log))

StackIsLIFOWitness ==
    /\ PushesThenPops(stack_log)
    /\ ItemsOf(Pushed(stack_log)) = <<"A", "A", "B">>
    /\ ItemsOf(Popped(stack_log)) = <<"B", "A", "A">>
    /\ is_empty(items)

(***************************************************************************)
(* stack_vs_queue.py, demo_basic_operations: the deque used as a queue.    *)
(***************************************************************************)
MaxEnqueued == 5

\* deque.append
deque_append(q, x) == Append(q, x)

\* taking from the right end instead: deque.pop()
deque_pop(q) == [ret |-> q[Len(q)], rest |-> SubSeq(q, 1, Len(q) - 1)]

\* deque.popleft
deque_popleft(q) == [ret |-> Head(q), rest |-> Tail(q)]

NotQueue == UNCHANGED <<fibVars, stackVars, graphVars, recVars, undoVars,
    trampVars>>

\* queue.append(item)
Enqueue(x) ==
    /\ Len(enqueued) < MaxEnqueued
    /\ queue' = deque_append(queue, x)
    /\ enqueued' = Append(enqueued, x)
    /\ UNCHANGED dequeued
    /\ NotQueue

\* `while queue: item = queue.popleft()`
Dequeue ==
    /\ queue # <<>>
    /\ LET r == deque_popleft(queue)
       IN  /\ queue' = r.rest
           /\ dequeued' = Append(dequeued, r.ret)
    /\ UNCHANGED enqueued
    /\ NotQueue

InitQueue ==
    /\ queue = <<>> /\ enqueued = <<>> /\ dequeued = <<>>
    /\ FibIdle /\ StackIdle /\ GraphIdle /\ RecIdle /\ UndoIdle /\ TrampIdle

NextQueue ==
    \/ \E x \in Items : Enqueue(x)
    \/ Dequeue

SpecQueue == InitQueue /\ [][NextQueue]_vars

\* C3: the queue is FIFO.  Under any interleaving of enqueues and dequeues the
\* elements dequeued so far, followed by those still queued, are the elements
\* enqueued, in the order they were enqueued; so once the queue is empty the
\* dequeued elements are exactly the enqueued ones, in order.
QueueIsFIFO ==
    /\ dequeued \o queue = enqueued
    /\ queue = <<>> => dequeued = enqueued

QueueIsFIFOWitness ==
    /\ enqueued = <<"A", "B", "B", "A">>
    /\ dequeued = <<"A", "B", "B">>
    /\ queue = <<"A">>

(***************************************************************************)
(* stack_vs_queue.py, demo_practical_examples: bfs and dfs.                *)
(***************************************************************************)
MaxEdges == 4

\* the nodes a graph may have (the demo's graph has 'A'..'F')
Nodes == {"A", "B", "C", "D"}

Range(s) == {s[i] : i \in DOMAIN s}

\* The adjacency lists a node may have: every ordering of every set of nodes.
AdjLists ==
    UNION {{s \in [1..Cardinality(S) -> S] : Range(s) = S} : S \in SUBSET Nodes}

\* Every adjacency-list mapping over the nodes S with at most `budget` edges:
\* cycles, self-loops and children shared by several parents included.
RECURSIVE Graphs(_, _)
Graphs(S, budget) ==
    IF S = {} THEN {<<>>}
    ELSE LET u == CHOOSE x \in S : TRUE
         IN  UNION {{(u :> l) @@ g : g \in Graphs(S \ {u}, budget - Len(l))} :
                       l \in {a \in AdjLists : Len(a) <= budget}}

\* queue.extendleft(...): the children go to the front
bfs_extend_left(q, children) == Reverse(children) \o q

\* queue.extend(graph[node])
bfs_extend(q, children) == q \o children

\* stack.extend(graph[node]), without reversed()
dfs_extend_unreversed(s, children) == s \o children

\* stack.extend(reversed(graph[node]))
dfs_extend(s, children) == s \o Reverse(children)

NotGraph == UNCHANGED <<fibVars, stackVars, queueVars, recVars, undoVars,
    trampVars>>

\* one turn of bfs's `while queue:`
BfsStep ==
    /\ traversal = "bfs"
    /\ bfs_queue # <<>>
    /\ LET r == deque_popleft(bfs_queue)
           node == r.ret
       IN  IF node \notin bfs_visited
           THEN /\ bfs_visited' = bfs_visited \cup {node}
                /\ bfs_order' = Append(bfs_order, node)
                /\ bfs_queue' = bfs_extend(r.rest, graph[node])
           ELSE /\ bfs_queue' = r.rest
                /\ UNCHANGED <<bfs_visited, bfs_order>>
    /\ UNCHANGED <<graph, start, traversal, dfs_visited, dfs_stack, dfs_order>>
    /\ NotGraph

\* bfs returns order; dfs(graph, start) is called and sets up its locals
BfsReturn ==
    /\ traversal = "bfs"
    /\ bfs_queue = <<>>
    /\ traversal' = "dfs"
    /\ dfs_visited' = {}
    /\ dfs_stack' = <<start>>
    /\ dfs_order' = <<>>
    /\ UNCHANGED <<graph, start, bfs_visited, bfs_queue, bfs_order>>
    /\ NotGraph

\* one turn of dfs's `while stack:`
DfsStep ==
    /\ traversal = "dfs"
    /\ dfs_stack # <<>>
    /\ LET r == stack_pop(dfs_stack)
           node == r.ret
       IN  IF node \notin dfs_visited
           THEN /\ dfs_visited' = dfs_visited \cup {node}
                /\ dfs_order' = Append(dfs_order, node)
                /\ dfs_stack' = dfs_extend(r.items, graph[node])
           ELSE /\ dfs_stack' = r.items
                /\ UNCHANGED <<dfs_visited, dfs_order>>
    /\ UNCHANGED <<graph, start, traversal, bfs_visited, bfs_queue, bfs_order>>
    /\ NotGraph

\* dfs returns order
DfsReturn ==
    /\ traversal = "dfs"
    /\ dfs_stack = <<>>
    /\ traversal' = "done"
    /\ UNCHANGED <<graph, start, bfs_visited, bfs_queue, bfs_order,
                   dfs_visited, dfs_stack, dfs_order>>
    /\ NotGraph

\* bfs(graph, start) has just been called
InitGraph ==
    /\ graph \in Graphs(Nodes, MaxEdges)
    /\ start \in Nodes
    /\ traversal = "bfs"
    /\ bfs_visited = {} /\ bfs_queue = <<start>> /\ bfs_order = <<>>
    /\ dfs_visited = {} /\ dfs_stack = <<>> /\ dfs_order = <<>>
    /\ FibIdle /\ StackIdle /\ QueueIdle /\ RecIdle /\ UndoIdle /\ TrampIdle

NextGraph ==
    \/ BfsStep
    \/ BfsReturn
    \/ DfsStep
    \/ DfsReturn

SpecGraph == InitGraph /\ [][NextGraph]_vars

\* The nodes at most k edges away from s.
RECURSIVE Within(_, _, _)
Within(g, s, k) ==
    IF k = 0 THEN {s}
    ELSE LET W == Within(g, s, k - 1)
         IN  W \cup {v \in DOMAIN g : \E u \in W : v \in Range(g[u])}

Reachable(g, s) == Within(g, s, Cardinality(DOMAIN g))

\* The shortest-path distance from s to a node reachable from it.
Dist(g, s, v) ==
    CHOOSE k \in 0..Cardinality(DOMAIN g) :
        /\ v \in Within(g, s, k)
        /\ k > 0 => v \notin Within(g, s, k - 1)

\* C4: bfs visits nodes in non-decreasing shortest-path distance from start:
\* every node in the order is reachable from start, and a node that appears
\* before another is no farther from start than it.
BfsOrderByDistance ==
    /\ Range(bfs_order) \subseteq Reachable(graph, start)
    /\ \A i, j \in DOMAIN bfs_order :
          i < j => Dist(graph, start, bfs_order[i]) <= Dist(graph, start, bfs_order[j])

\* bfs has returned an order over four nodes at distances 0, 1, 1 and 2 in a
\* graph with a child shared by two parents
BfsOrderByDistanceWitness ==
    /\ traversal = "dfs"
    /\ Len(bfs_order) = 4
    /\ Dist(graph, start, bfs_order[3]) = 1
    /\ Dist(graph, start, bfs_order[4]) = 2
    /\ \E u, v \in Nodes : u # v /\ bfs_order[4] \in Range(graph[u]) \cap Range(graph[v])

\* The preorder of the recursive depth-first traversal that takes each node's
\* children in adjacency-list order: visit(v) appends v and then visits every
\* child not yet visited.
RECURSIVE Visit(_, _, _)
RECURSIVE VisitChildren(_, _, _)
Visit(g, v, ord) ==
    IF v \in Range(ord) THEN ord ELSE VisitChildren(g, g[v], Append(ord, v))
VisitChildren(g, children, ord) ==
    IF children = <<>> THEN ord
    ELSE VisitChildren(g, Tail(children), Visit(g, Head(children), ord))

Preorder(g, s) == Visit(g, s, <<>>)

\* The nodes reachable from the nodes W along edges that stay inside U.
RECURSIVE ReachIn(_, _, _)
ReachIn(g, U, W) ==
    LET W2 == W \cup {x \in U : \E u \in W : x \in Range(g[u])}
    IN  IF W2 = W THEN W ELSE ReachIn(g, U, W2)

IsPrefix(s, t) == Len(s) <= Len(t) /\ s = SubSeq(t, 1, Len(s))

\* C5: dfs visits a full branch before backtracking.  The order grows as a
\* prefix of the recursive left-to-right preorder and ends equal to it; and in
\* the returned order, the nodes that were unvisited and reachable from
\* order[i] through unvisited nodes when order[i] was appended are exactly the
\* nodes at positions i, i+1, ... that follow it, before any other node.
DfsIsPreorder ==
    traversal \in {"dfs", "done"} =>
        /\ IsPrefix(dfs_order, Preorder(graph, start))
        /\ traversal = "done" =>
              /\ dfs_order = Preorder(graph, start)
              /\ \A i \in DOMAIN dfs_order :
                    LET U == Nodes \ {dfs_order[j] : j \in 1..(i - 1)}
                        R == ReachIn(graph, U, {dfs_order[i]})
                    IN  /\ i + Cardinality(R) - 1 <= Len(dfs_order)
                        /\ {dfs_order[j] : j \in i..(i + Cardinality(R) - 1)} = R

\* dfs has returned an order over four nodes that differs from the
\* breadth-first one, in a graph where start lies on a cycle
DfsIsPreorderWitness ==
    /\ traversal = "done"
    /\ Len(dfs_order) = 4
    /\ dfs_order # bfs_order
    /\ \E u \in Nodes : start \in Range(graph[u]) /\ u \in Reachable(graph, start)

(***************************************************************************)
(* stack_overflow.py: demonstrate_recursion_limit and safe_deep_recursion, *)
(* as __main__ calls them.  `frames` counts the Python frames on the call  *)
(* stack (the module's frame is the first); a call whose frame would be    *)
(* number recursion_limit + 1 raises RecursionError in the caller instead. *)
(***************************************************************************)
MaxRecursionLimit == 12
MaxLimit == 6

\* sys.getrecursionlimit() of an interpreter left at its default
DefaultRecursionLimit == 1000

\* safe_deep_recursion's default `limit`, which safe_deep_recursion(1000) keeps
DefaultLimit == 1000

\* the deepest call stack of the demonstrations after safe_deep_recursion:
\* module, demonstrate_iterative_conversion, sum_recursive(10) .. sum_recursive(0)
RestFrames == 13

\* an except clause for some other exception type
HandlesValueError(e) == e = "ValueError"

\* `except RecursionError as e`
Handles(e) == e = "RecursionError"

\* the interpreter's recursion-depth guard: may one more frame be pushed?
CanCall == frames < recursion_limit

NotRec == UNCHANGED <<fibVars, stackVars, queueVars, graphVars, undoVars,
    trampVars>>

\* __main__ calls demonstrate_recursion_limit(), which enters its try block
CallDemonstrate ==
    /\ pc = "main"
    /\ CanCall
    /\ frames' = frames + 1
    /\ pc' = "try"
    /\ UNCHANGED <<recursion_limit, limit, depth, call_count, result, exc,
                   exit_code, stdout>>
    /\ NotRec

\* infinite_recursion() from the try block, or infinite_recursion(depth + 1)
\* from inside infinite_recursion(depth)
CallInfinite ==
    /\ pc \in {"try", "infinite_recursion"}
    /\ CanCall
    /\ frames' = frames + 1
    /\ depth' = IF pc = "try" THEN 0 ELSE depth + 1
    /\ pc' = "infinite_recursion"
    /\ UNCHANGED <<recursion_limit, limit, call_count, result, exc, exit_code,
                   stdout>>
    /\ NotRec

\* the same call when the guard refuses it: RecursionError in the caller
RaiseInfinite ==
    /\ pc \in {"try", "infinite_recursion"}
    /\ ~CanCall
    /\ exc' = "RecursionError"
    /\ pc' = "raise_drl"
    /\ UNCHANGED <<recursion_limit, limit, frames, depth, call_count, result,
                   exit_code, stdout>>
    /\ NotRec

\* the frame of demonstrate_recursion_limit (frame 2) holds the try block
InHandlerFrame == pc = "raise_drl" /\ frames = 2 /\ Handles(exc)

\* an exception leaves a frame that does not handle it
Unwind ==
    /\ pc \in {"raise_drl", "raise_sdr"}
    /\ frames > 0
    /\ ~InHandlerFrame
    /\ frames' = frames - 1
    /\ UNCHANGED <<pc, recursion_limit, limit, depth, call_count, result, exc,
                   exit_code, stdout>>
    /\ NotRec

\* the except block of demonstrate_recursion_limit reports the error
Catch ==
    /\ InHandlerFrame
    /\ exc' = None
    /\ stdout' = Append(stdout, "RecursionError caught")
    /\ pc' = "except"
    /\ UNCHANGED <<recursion_limit, limit, frames, depth, call_count, result,
                   exit_code>>
    /\ NotRec

\* demonstrate_recursion_limit returns to __main__
ReturnDemonstrate ==
    /\ pc = "except"
    /\ frames' = frames - 1
    /\ pc' = "main2"
    /\ UNCHANGED <<recursion_limit, limit, depth, call_count, result, exc,
                   exit_code, stdout>>
    /\ NotRec

\* __main__ calls safe_deep_recursion(1000): call_count = [0]
CallSafe ==
    /\ pc = "main2"
    /\ CanCall
    /\ frames' = frames + 1
    /\ call_count' = 0
    /\ pc' = "safe"
    /\ UNCHANGED <<recursion_limit, limit, depth, result, exc, exit_code, stdout>>
    /\ NotRec

\* recursive_count(0) from safe_deep_recursion, or recursive_count(depth + 1)
\* from recursive_count(depth) when depth < limit; the callee's first
\* statement is call_count[0] += 1
CallRecursiveCount ==
    /\ pc \in {"safe", "recursive_count"}
    /\ pc = "recursive_count" => depth < limit
    /\ CanCall
    /\ frames' = frames + 1
    /\ depth' = IF pc = "safe" THEN 0 ELSE depth + 1
    /\ call_count' = call_count + 1
    /\ pc' = "recursive_count"
    /\ UNCHANGED <<recursion_limit, limit, result, exc, exit_code, stdout>>
    /\ NotRec

\* the same call when the guard refuses it
RaiseRecursiveCount ==
    /\ pc \in {"safe", "recursive_count"}
    /\ pc = "recursive_count" => depth < limit
    /\ ~CanCall
    /\ exc' = "RecursionError"
    /\ pc' = "raise_sdr"
    /\ UNCHANGED <<recursion_limit, limit, frames, depth, call_count, result,
                   exit_code, stdout>>
    /\ NotRec

\* `if depth >= limit: return depth`
BaseCase ==
    /\ pc = "recursive_count"
    /\ depth >= limit
    /\ result' = <<depth>>
    /\ frames' = frames - 1
    /\ pc' = "returning"
    /\ UNCHANGED <<recursion_limit, limit, depth, call_count, exc, exit_code, stdout>>
    /\ NotRec

\* `return recursive_count(depth + 1)` hands the value to its caller
ReturnUp ==
    /\ pc = "returning"
    /\ frames > 2
    /\ frames' = frames - 1
    /\ UNCHANGED <<pc, recursion_limit, limit, depth, call_count, result, exc,
                   exit_code, stdout>>
    /\ NotRec

\* safe_deep_recursion prints the depth reached and returns to __main__
SafeReturn ==
    /\ pc = "returning"
    /\ frames = 2
    /\ stdout' = Append(stdout, "Reached depth")
    /\ frames' = frames - 1
    /\ pc' = "rest"
    /\ UNCHANGED <<recursion_limit, limit, depth, call_count, result, exc, exit_code>>
    /\ NotRec

\* the remaining demonstrations, which need RestFrames frames, and the end of
\* the script
Rest ==
    /\ pc = "rest"
    /\ IF RestFrames <= recursion_limit
       THEN /\ exit_code' = <<0>>
            /\ exc' = exc
       ELSE /\ exit_code' = <<1>>
            /\ exc' = "RecursionError"
    /\ frames' = 0
    /\ pc' = "exit"
    /\ UNCHANGED <<recursion_limit, limit, depth, call_count, result, stdout>>
    /\ NotRec

\* an exception nothing caught ends the interpreter with status 1
Crash ==
    /\ pc \in {"raise_drl", "raise_sdr"}
    /\ frames = 0
    /\ exit_code' = <<1>>
    /\ pc' = "exit"
    /\ UNCHANGED <<recursion_limit, limit, frames, depth, call_count, result,
                   exc, stdout>>
    /\ NotRec

InitRecursion ==
    /\ pc = "main"
    /\ recursion_limit \in (2..MaxRecursionLimit) \cup {DefaultRecursionLimit}
    /\ limit \in (0..MaxLimit) \cup {DefaultLimit}
    /\ frames = 1
    /\ depth = 0 /\ call_count = 0 /\ result = <<>> /\ exc = None
    /\ exit_code = <<>> /\ stdout = <<>>
    /\ FibIdle /\ StackIdle /\ QueueIdle /\ GraphIdle /\ UndoIdle /\ TrampIdle

NextRecursion ==
    \/ CallDemonstrate
    \/ CallInfinite
    \/ RaiseInfinite
    \/ Unwind
    \/ Catch
    \/ ReturnDemonstrate
    \/ CallSafe
    \/ CallRecursiveCount
    \/ RaiseRecursiveCount
    \/ BaseCase
    \/ ReturnUp
    \/ SafeReturn
    \/ Rest
    \/ Crash

SpecRecursion == InitRecursion /\ [][NextRecursion]_vars

\* The interpreter is one thread that always takes its next step.
FairSpecRecursion == SpecRecursion /\ WF_vars(NextRecursion)

\* C7 (as claimed): with the default recursion limit and the default limit=1000,
\* no RecursionError is raised in safe_deep_recursion, and the script ends with
\* status 0, recursive_count having returned limit after limit + 1 calls.
SafeDeepRecursionCompletes ==
    (recursion_limit = DefaultRecursionLimit /\ limit = DefaultLimit) =>
        /\ pc # "raise_sdr"
        /\ pc = "exit" =>
              /\ exit_code = <<0>>
              /\ result = <<limit>>
              /\ call_count = limit + 1

\* C8: in demonstrate_recursion_limit, for every recursion limit, the call
\* depth of infinite_recursion grows until the recursion-depth guard raises
\* RecursionError at the limit; the error never leaves the frame of
\* demonstrate_recursion_limit, whose except block catches it once the frames
\* above it are unwound; and demonstrate_recursion_limit returns normally.
InfiniteRecursionCaught ==
    /\ [](pc = "raise_drl" => frames >= 2)
    /\ [](pc \in {"try", "infinite_recursion"} => frames <= recursion_limit)
    /\ (pc = "try") ~> (pc = "raise_drl" /\ frames = recursion_limit
                           /\ exc = "RecursionError")
    /\ (pc = "raise_drl") ~> (pc = "except" /\ frames = 2 /\ exc = None)
    /\ (pc = "except") ~> (pc = "main2" /\ frames = 1 /\ exc = None)

InfiniteRecursionCaughtWitness ==
    /\ pc = "main2"
    /\ recursion_limit = DefaultRecursionLimit
    /\ depth = DefaultRecursionLimit - 3
    /\ stdout = <<"RecursionError caught">>
    /\ frames = 1
    /\ exc = None

(***************************************************************************)
(* stack_vs_queue.py, demo_practical_examples: class UndoRedo.             *)
(* Each method is an operator from the two stacks to the stacks after the  *)
(* call, the value returned and the line printed.                          *)
(***************************************************************************)
MaxUndo == 3

\* the actions an editor may record
ActionNames == {"Type", "Delete"}

\* do_action without `self.redo_stack.clear()`
do_action_keeps_redo(u, r, action) ==
    [undo |-> Append(u, action), redo |-> r, ret |-> None, printed |-> "Action"]

do_action(u, r, action) ==
    [undo |-> Append(u, action), redo |-> <<>>, ret |-> None, printed |-> "Action"]

\* an undo without the `if self.undo_stack:` guard's effect: on an empty stack
\* it still moves an (absent) action to the redo stack
undo_unguarded(u, r) ==
    IF u # <<>>
    THEN LET action == u[Len(u)]
         IN  [undo |-> SubSeq(u, 1, Len(u) - 1), redo |-> Append(r, action),
              ret |-> action, printed |-> "Undo"]
    ELSE [undo |-> u, redo |-> Append(r, None), ret |-> None, printed |-> "Undo"]

undo(u, r) ==
    IF u # <<>>
    THEN LET action == u[Len(u)]
         IN  [undo |-> SubSeq(u, 1, Len(u) - 1), redo |-> Append(r, action),
              ret |-> action, printed |-> "Undo"]
    ELSE [undo |-> u, redo |-> r, ret |-> None, printed |-> "Nothing to undo"]

\* a redo that takes the oldest undone action: self.redo_stack.pop(0)
redo_oldest(u, r) ==
    IF r # <<>>
    THEN LET action == r[1]
         IN  [undo |-> Append(u, action), redo |-> SubSeq(r, 2, Len(r)),
              ret |-> action, printed |-> "Redo"]
    ELSE [undo |-> u, redo |-> r, ret |-> None, printed |-> "Nothing to redo"]

redo(u, r) ==
    IF r # <<>>
    THEN LET action == r[Len(r)]
         IN  [undo |-> Append(u, action), redo |-> SubSeq(r, 1, Len(r) - 1),
              ret |-> action, printed |-> "Redo"]
    ELSE [undo |-> u, redo |-> r, ret |-> None, printed |-> "Nothing to redo"]

\* The history keeps the last three calls: the method, its argument, the stacks
\* before the call, and what the call returned and printed.
Record(h, op, arg, out) ==
    LET all == Append(h, [op |-> op, arg |-> arg, undo |-> undo_stack,
                          redo |-> redo_stack, ret |-> out.ret,
                          printed |-> out.printed])
    IN  IF Len(all) > 3 THEN Tail(all) ELSE all

NotUndo == UNCHANGED <<fibVars, stackVars, queueVars, graphVars, recVars,
    trampVars>>

DoAction(action) ==
    /\ Len(undo_stack) < MaxUndo
    /\ LET out == do_action(undo_stack, redo_stack, action)
       IN  /\ undo_stack' = out.undo
           /\ redo_stack' = out.redo
           /\ hist' = Record(hist, "do_action", action, out)
    /\ NotUndo

Undo ==
    /\ LET out == undo(undo_stack, redo_stack)
       IN  /\ undo_stack' = out.undo
           /\ redo_stack' = out.redo
           /\ hist' = Record(hist, "undo", None, out)
    /\ NotUndo

Redo ==
    /\ LET out == redo(undo_stack, redo_stack)
       IN  /\ undo_stack' = out.undo
           /\ redo_stack' = out.redo
           /\ hist' = Record(hist, "redo", None, out)
    /\ NotUndo

\* editor = UndoRedo()
InitUndo ==
    /\ undo_stack = <<>> /\ redo_stack = <<>> /\ hist = <<>>
    /\ FibIdle /\ StackIdle /\ QueueIdle /\ GraphIdle /\ RecIdle /\ TrampIdle

NextUndo ==
    \/ \E action \in ActionNames : DoAction(action)
    \/ Undo
    \/ Redo

SpecUndo == InitUndo /\ [][NextUndo]_vars

\* The stacks before and after the i-th call of the history.
Before(i) == [undo |-> hist[i].undo, redo |-> hist[i].redo]
After(i) ==
    IF i = Len(hist) THEN [undo |-> undo_stack, redo |-> redo_stack]
    ELSE Before(i + 1)

\* C9: a new action clears redo.  Right after any do_action(a) the redo stack
\* is empty and a is on top of the undo stack, and a redo() that follows
\* returns None and changes neither stack, whatever was undone before.
NewActionClearsRedo ==
    \A i \in DOMAIN hist :
        hist[i].op = "do_action" =>
            /\ After(i).redo = <<>>
            /\ After(i).undo # <<>>
            /\ After(i).undo[Len(After(i).undo)] = hist[i].arg
            /\ (i < Len(hist) /\ hist[i + 1].op = "redo") =>
                  /\ hist[i + 1].ret = None
                  /\ After(i + 1) = After(i)

\* two undos, then do_action with two actions waiting on the redo stack, then redo
NewActionClearsRedoWitness ==
    /\ Len(hist) = 3
    /\ hist[1].op = "undo" /\ hist[1].ret # None
    /\ hist[2].op = "do_action" /\ Len(hist[2].redo) = 2
    /\ hist[3].op = "redo"

\* C10: undo and redo are inverses.  From a state with a non-empty undo stack,
\* undo() and then redo() leave both stacks as they were and return the same
\* action; from a state with a non-empty redo stack, redo() and then undo()
\* leave both stacks as they were.
UndoRedoInverse ==
    \A i \in DOMAIN hist :
        i < Len(hist) =>
            /\ (hist[i].op = "undo" /\ hist[i].undo # <<>> /\ hist[i + 1].op = "redo") =>
                  /\ After(i + 1) = Before(i)
                  /\ hist[i + 1].ret = hist[i].ret
                  /\ hist[i].ret # None
            /\ (hist[i].op = "redo" /\ hist[i].redo # <<>> /\ hist[i + 1].op = "undo") =>
                  /\ After(i + 1) = Before(i)

\* undo() then redo() from a state with two different actions on each stack's
\* side: the redo stack was not empty before the undo
UndoRedoInverseWitness ==
    /\ Len(hist) = 3
    /\ hist[2].op = "undo" /\ hist[2].undo # <<>> /\ hist[2].redo # <<>>
    /\ hist[2].redo[1] # hist[2].undo[Len(hist[2].undo)]
    /\ hist[3].op = "redo"
    /\ undo_stack = hist[2].undo /\ redo_stack = hist[2].redo

\* C11: undo() with an empty undo stack and redo() with an empty redo stack
\* are no-ops: the call prints 'Nothing to undo' / 'Nothing to redo', returns
\* None, and leaves both stacks as they were.
EmptyUndoRedoNoOp ==
    \A i \in DOMAIN hist :
        /\ (hist[i].op = "undo" /\ hist[i].undo = <<>>) =>
              /\ hist[i].printed = "Nothing to undo"
              /\ hist[i].ret = None
              /\ After(i) = Before(i)
        /\ (hist[i].op = "redo" /\ hist[i].redo = <<>>) =>
              /\ hist[i].printed = "Nothing to redo"
              /\ hist[i].ret = None
              /\ After(i) = Before(i)

\* undo() on an empty undo stack with actions waiting on the redo stack, then
\* redo() on an empty redo stack with actions on the undo stack
EmptyUndoRedoNoOpWitness ==
    /\ Len(hist) = 3
    /\ hist[1].op = "undo" /\ hist[1].undo = <<>> /\ Len(hist[1].redo) = 2
    /\ hist[2].op = "do_action"
    /\ hist[3].op = "redo" /\ hist[3].redo = <<>> /\ hist[3].undo # <<>>
    /\ hist[3].printed = "Nothing to redo"

(***************************************************************************)
(* stack_overflow.py: factorial_tail_recursive and the trampoline of       *)
(* demonstrate_trampoline, each applied to fact_n.  call_stack holds the   *)
(* activations of factorial_tail_recursive, factorial_trampoline and       *)
(* trampoline; the frames of the module and of the enclosing               *)
(* demonstration are left out.                                             *)
(***************************************************************************)
MaxFact == 7

\* Bounce(func, *args) with func = factorial_trampoline
Bounce(k, acc) == [kind |-> "Bounce", args |-> <<k, acc>>]

\* a plain int
IntValue(v) == [kind |-> "int", args |-> <<v>>]

\* isinstance(bouncer, Bounce)
IsBounce(b) == b.kind = "Bounce"

\* a bounce that passes acc on without multiplying: Bounce(f, n - 1, acc)
factorial_trampoline_no_product(k, acc) ==
    IF k <= 1 THEN IntValue(acc) ELSE Bounce(k - 1, acc)

\* what one activation of factorial_trampoline(k, acc) returns
factorial_trampoline(k, acc) ==
    IF k <= 1 THEN IntValue(acc) ELSE Bounce(k - 1, k * acc)

Frame(fn, k, acc) == [fn |-> fn, n |-> k, acc |-> acc]
Top == call_stack[Len(call_stack)]
Popped1 == SubSeq(call_stack, 1, Len(call_stack) - 1)

NotTramp == UNCHANGED <<fibVars, stackVars, queueVars, graphVars, recVars,
    undoVars>>

\* result = factorial_tail_recursive(n): acc defaults to 1
CallTail ==
    /\ t_pc = "start"
    /\ call_stack' = Append(call_stack, Frame("factorial_tail_recursive", fact_n, 1))
    /\ t_pc' = "tail"
    /\ UNCHANGED <<fact_n, bouncer, tail_result, tramp_result>>
    /\ NotTramp

\* return factorial_tail_recursive(n - 1, n * acc): a new activation
TailRecurse ==
    /\ t_pc = "tail"
    /\ Top.n > 1
    /\ call_stack' = Append(call_stack,
                            Frame("factorial_tail_recursive", Top.n - 1, Top.n * Top.acc))
    /\ UNCHANGED <<fact_n, t_pc, bouncer, tail_result, tramp_result>>
    /\ NotTramp

\* if n <= 1: return acc
TailBase ==
    /\ t_pc = "tail"
    /\ Top.n <= 1
    /\ tail_result' = <<Top.acc>>
    /\ call_stack' = Popped1
    /\ t_pc' = "tail_return"
    /\ UNCHANGED <<fact_n, bouncer, tramp_result>>
    /\ NotTramp

\* each caller returns the value it was handed
TailReturn ==
    /\ t_pc = "tail_return"
    /\ call_stack # <<>>
    /\ call_stack' = Popped1
    /\ UNCHANGED <<fact_n, t_pc, bouncer, tail_result, tramp_result>>
    /\ NotTramp

\* the outermost call has returned; demonstrate_trampoline evaluates the
\* argument of trampoline(...): factorial_trampoline(n)
CallFactorialTrampoline ==
    /\ t_pc = "tail_return"
    /\ call_stack = <<>>
    /\ call_stack' = Append(call_stack, Frame("factorial_trampoline", fact_n, 1))
    /\ t_pc' = "argument"
    /\ UNCHANGED <<fact_n, bouncer, tail_result, tramp_result>>
    /\ NotTramp

\* an activation of factorial_trampoline returns, to demonstrate_trampoline
\* (the argument) or to trampoline's loop, which binds it to bouncer
ReturnFactorialTrampoline ==
    /\ t_pc \in {"argument", "bounced"}
    /\ bouncer' = factorial_trampoline(Top.n, Top.acc)
    /\ call_stack' = Popped1
    /\ t_pc' = IF t_pc = "argument" THEN "call_trampoline" ELSE "loop"
    /\ UNCHANGED <<fact_n, tail_result, tramp_result>>
    /\ NotTramp

\* trampoline(bouncer) is called
CallTrampoline ==
    /\ t_pc = "call_trampoline"
    /\ call_stack' = Append(call_stack, Frame("trampoline", 0, 0))
    /\ t_pc' = "loop"
    /\ UNCHANGED <<fact_n, bouncer, tail_result, tramp_result>>
    /\ NotTramp

\* while isinstance(bouncer, Bounce): bouncer = bouncer.func(*bouncer.args)
BounceOnce ==
    /\ t_pc = "loop"
    /\ IsBounce(bouncer)
    /\ call_stack' = Append(call_stack,
                            Frame("factorial_trampoline", bouncer.args[1], bouncer.args[2]))
    /\ t_pc' = "bounced"
    /\ UNCHANGED <<fact_n, bouncer, tail_result, tramp_result>>
    /\ NotTramp

\* return bouncer
TrampolineReturn ==
    /\ t_pc = "loop"
    /\ ~IsBounce(bouncer)
    /\ tramp_result' = <<bouncer.args[1]>>
    /\ call_stack' = Popped1
    /\ t_pc' = "done"
    /\ UNCHANGED <<fact_n, bouncer, tail_result>>
    /\ NotTramp

InitTrampoline ==
    /\ fact_n \in 0..MaxFact
    /\ t_pc = "start"
    /\ call_stack = <<>>
    /\ bouncer = [kind |-> "unset", args |-> <<>>]
    /\ tail_result = <<>> /\ tramp_result = <<>>
    /\ FibIdle /\ StackIdle /\ QueueIdle /\ GraphIdle /\ RecIdle /\ UndoIdle

NextTrampoline ==
    \/ CallTail
    \/ TailRecurse
    \/ TailBase
    \/ TailReturn
    \/ CallFactorialTrampoline
    \/ ReturnFactorialTrampoline
    \/ CallTrampoline
    \/ BounceOnce
    \/ TrampolineReturn

SpecTrampoline == InitTrampoline /\ [][NextTrampoline]_vars

\* The interpreter is one thread that always takes its next step.
FairSpecTrampoline == SpecTrampoline /\ WF_vars(NextTrampoline)

\* k! for k >= 1, and 1 for k <= 1
RECURSIVE Factorial(_)
Factorial(k) == IF k <= 1 THEN 1 ELSE k * Factorial(k - 1)

\* the live activations of fn
Live_(fn) == Cardinality({i \in DOMAIN call_stack : call_stack[i].fn = fn})

\* the innermost factorial_tail_recursive activation is about to return acc
AtTailBase == t_pc = "tail" /\ Top.n <= 1

\* what the claim says of the values and of the trampoline's call depth
TrampolineValueAndDepth ==
    /\ Live_("factorial_trampoline") <= 1
    /\ Live_("trampoline") <= 1
    /\ Live_("trampoline") = 1 => Len(call_stack) <= 2
    /\ t_pc = "done" =>
          /\ tramp_result = tail_result
          /\ tramp_result = <<Factorial(fact_n)>>
          /\ call_stack = <<>>

\* C12 (as claimed): the trampoline returns what factorial_tail_recursive
\* returns, n!, with at most one factorial_trampoline activation live at any
\* moment, whereas factorial_tail_recursive nests n activations.
TrampolineAsClaimed ==
    /\ TrampolineValueAndDepth
    /\ Live_("factorial_tail_recursive") <= fact_n
    /\ AtTailBase => Live_("factorial_tail_recursive") = fact_n

\* C12 (amended): for every n, trampoline(factorial_trampoline(n)) terminates
\* and returns what factorial_tail_recursive(n) returns, n! (1 for n <= 1),
\* with at most one factorial_trampoline activation live at any moment,
\* whereas factorial_tail_recursive nests n activations for n >= 1, and one
\* for n = 0.
TrampolineEquivalent ==
    /\ [](TrampolineValueAndDepth)
    /\ [](Live_("factorial_tail_recursive") <= (IF fact_n >= 1 THEN fact_n ELSE 1))
    /\ [](AtTailBase =>
            Live_("factorial_tail_recursive") = (IF fact_n >= 1 THEN fact_n ELSE 1))
    /\ <>(t_pc = "done")

TrampolineEquivalentWitness ==
    /\ t_pc = "done"
    /\ fact_n = 5
    /\ tramp_result = <<120>>
    /\ tail_result = <<120>>

=============================================================================
